---- MODULE Spec2Model ----
(***************************************************************************)
(* A model of merlin.py (njr0/wisdom): the quotations parser, the wisdom   *)
(* section parser, the aggregator that writes the cache, and the selector. *)
(*                                                                         *)
(* A string is a sequence of one-character strings; a document is a        *)
(* sequence of raw lines (without their line terminator).  The non-ASCII   *)
(* dashes of is_dash are the tokens "EN_DASH", "EM_DASH", "HBAR" and       *)
(* "HEAVY_MINUS".  A dict is a sequence of records [k, v] with distinct k, *)
(* in insertion order; json.dump followed by json.load gives back such a   *)
(* dict of lists of strings unchanged, so the cache holds the dict itself. *)
(***************************************************************************)
EXTENDS Naturals, Integers, Sequences, FiniteSets, TLC

VARIABLES
    argv,        \* sys.argv[1:]
    quotes_md,   \* the lines of quotes.md
    wisdom_md,   \* the lines of wisdom.md
    json,        \* wisdom.json: [exists |-> BOOLEAN, data |-> dict]
    json0,       \* wisdom.json as it was when the process started
    pc,          \* position of the process
    ret,         \* where update() returns to
    quotes,      \* update(): result of get_quotes()
    lines,       \* get_wisdom(): result of get_wisdom_lines(); extract_wisdom(): its lines
    section,     \* extract_wisdom(): the heading line
    content,     \* extract_wisdom(): the returned (kind, content), as <<>> or <<[k, v]>>
    wisdom,      \* update(): result of get_wisdom(); merlin(): the loaded dict
    i,           \* merlin(): the drawn index
    stdout,      \* what was printed on standard output
    stderr,      \* what was printed on standard error
    exitcode     \* -1 while running, else the exit status of the process

vars == <<argv, quotes_md, wisdom_md, json, json0, pc, ret, quotes, lines,
          section, content, wisdom, i, stdout, stderr, exitcode>>

----------------------------------------------------------------------------
(* Bounds of the model *)

MaxQuoteLines == 5
MaxSectionLines == 4
MaxBodyLines == 5
MaxGateLines == 4
MaxCats == 2
MaxItems == 2
MaxProgLines == 2

----------------------------------------------------------------------------
(* Strings *)

Whitespace == {" ", "\t", "\n", "\r", "\f"}

RECURSIVE lstrip(_)
lstrip(L) == IF L # <<>> /\ Head(L) \in Whitespace THEN lstrip(Tail(L)) ELSE L

RECURSIVE rstrip(_)
rstrip(L) ==
    IF L # <<>> /\ L[Len(L)] \in Whitespace
    THEN rstrip(SubSeq(L, 1, Len(L) - 1))
    ELSE L

strip(L) == rstrip(lstrip(L))

startswith(L, prefix) ==
    Len(L) >= Len(prefix) /\ SubSeq(L, 1, Len(prefix)) = prefix

endswith(L, suffix) ==
    Len(L) >= Len(suffix)
    /\ SubSeq(L, Len(L) - Len(suffix) + 1, Len(L)) = suffix

\* L.replace(c, '')
remove(L, c) == SelectSeq(L, LAMBDA ch : ch # c)

\* sep.join(ls)
RECURSIVE join(_, _)
join(ls, sep) ==
    IF ls = <<>> THEN <<>>
    ELSE IF Len(ls) = 1 THEN ls[1]
    ELSE ls[1] \o sep \o join(Tail(ls), sep)

\* s.splitlines(), for the line break "\n"
RECURSIVE splitlines_from(_, _)
splitlines_from(s, cur) ==
    IF s = <<>> THEN (IF cur = <<>> THEN <<>> ELSE <<cur>>)
    ELSE IF Head(s) = "\n" THEN <<cur>> \o splitlines_from(Tail(s), <<>>)
    ELSE splitlines_from(Tail(s), Append(cur, Head(s)))

splitlines(s) == splitlines_from(s, <<>>)

\* [L.strip() for L in f.readlines()]
readlines_stripped(md) == [n \in 1..Len(md) |-> strip(md[n])]

----------------------------------------------------------------------------
(* Lexical primitives *)

DashChars == {"-", "EN_DASH", "EM_DASH", "HBAR", "HEAVY_MINUS"}

is_dash(c) == c \in DashChars

is_separator(L) == Len(L) >= 3 /\ \A n \in 1..Len(L) : is_dash(L[n])

demark(L) == strip(remove(remove(remove(L, "*"), "_"), ">"))

form_quote(ls) == strip(join(ls, <<"\n">>))

form_epigraph(ls) == strip(join(ls, <<"\n">>))

----------------------------------------------------------------------------
(* get_quotes *)

WARNING == "WARNING: Last quote did not appear to end with an attribution"

\* quote_lines that drops the separators only
quote_lines_keep_headings(md) ==
    SelectSeq(readlines_stripped(md), LAMBDA L : ~is_separator(L))

\* lines 73-74: strip headings and separators
quote_lines(md) ==
    SelectSeq(readlines_stripped(md),
              LAMBDA L : ~startswith(L, <<"#">>) /\ ~is_separator(L))

\* quotes_loop that closes the pending buffer into a last quote
RECURSIVE quotes_loop_keep_tail(_, _, _)
quotes_loop_keep_tail(ls, qs, q) ==
    IF ls = <<>>
    THEN [quotes |-> IF q # <<>> THEN Append(qs, form_quote(q)) ELSE qs, quote |-> q]
    ELSE LET line == Head(ls)
             q1 == Append(q, demark(line))
         IN  IF line # <<>> /\ is_dash(line[1])
             THEN quotes_loop_keep_tail(Tail(ls), Append(qs, form_quote(q1)), <<>>)
             ELSE quotes_loop_keep_tail(Tail(ls), qs, q1)

\* lines 76-82: the loop, from the state (qs, q) over the remaining lines ls
RECURSIVE quotes_loop(_, _, _)
quotes_loop(ls, qs, q) ==
    IF ls = <<>> THEN [quotes |-> qs, quote |-> q]
    ELSE LET line == Head(ls)
             q1 == Append(q, demark(line))
         IN  IF line # <<>> /\ is_dash(line[1])
             THEN quotes_loop(Tail(ls), Append(qs, form_quote(q1)), <<>>)
             ELSE quotes_loop(Tail(ls), qs, q1)

\* any(quote)
any(q) == \E n \in 1..Len(q) : q[n] # <<>>

get_quotes(md) ==
    LET r == quotes_loop(quote_lines(md), <<>>, <<>>)
    IN  [quotes |-> r.quotes,
         err |-> IF any(r.quote)
                 THEN <<[fmt |-> WARNING, args |-> <<>>],
                        [fmt |-> "%r", args |-> <<r.quote>>]>>
                 ELSE <<>>]

----------------------------------------------------------------------------
(* Dicts: sequences of [k, v] with distinct keys, in insertion order *)

dict_keys(d) == {d[n].k : n \in 1..Len(d)}

dict_get(d, key) == d[CHOOSE n \in 1..Len(d) : d[n].k = key].v

\* d[key] = val: a new key goes last, an existing key keeps its place
dict_set(d, key, val) ==
    IF key \in dict_keys(d)
    THEN [n \in 1..Len(d) |-> IF d[n].k = key THEN [k |-> key, v |-> val] ELSE d[n]]
    ELSE Append(d, [k |-> key, v |-> val])

\* d[key].extend(val)
dict_extend(d, key, val) ==
    [n \in 1..Len(d) |->
        IF d[n].k = key THEN [k |-> key, v |-> d[n].v \o val] ELSE d[n]]

----------------------------------------------------------------------------
(* The wisdom section parser *)

HH == <<"#", "#">>

Epigraphs == <<"E", "p", "i", "g", "r", "a", "p", "h", "s">>

LicensingHead == <<"#", "#", " ", "L", "i", "c", "e", "n", "s", "i", "n", "g">>

AboutHead == <<"#", "#", " ", "A", "b", "o", "u", "t">>

TheManagement ==
    <<"*", "T", "h", "e", " ", "M", "a", "n", "a", "g", "e", "m", "e", "n", "t", "*">>

\* [(i, L) for i, L in enumerate(lines) if L.startswith('##')], as the indices
subheads(ls) == SelectSeq([n \in 1..Len(ls) |-> n], LAMBDA n : startswith(ls[n], HH))

\* lines 122-140, from the state (es, e) over the remaining lines ls
RECURSIVE epigraphs_loop(_, _, _)
epigraphs_loop(ls, es, e) ==
    IF ls = <<>> \/ startswith(Head(ls), HH)
    THEN (IF e # <<>> THEN Append(es, form_epigraph(e)) ELSE es)
    ELSE LET line == Head(ls)
         IN  IF line = <<>> \/ is_separator(line)
             THEN epigraphs_loop(Tail(ls), es, e)
             ELSE IF is_dash(line[1])
             THEN epigraphs_loop(Tail(ls),
                                 Append(es, form_epigraph(Append(e, demark(line)))),
                                 <<>>)
             ELSE epigraphs_loop(Tail(ls), es, Append(e, demark(line)))

get_epigraphs(ls, name) == [k |-> name, v |-> epigraphs_loop(ls, <<>>, <<>>)]

\* general_loop that takes the footer line for an item
RECURSIVE general_loop_with_footer(_, _)
general_loop_with_footer(ls, items) ==
    IF ls = <<>> \/ startswith(Head(ls), HH) THEN items
    ELSE LET line == Head(ls)
         IN  IF is_separator(line)
             THEN general_loop_with_footer(Tail(ls), items)
             ELSE IF line # <<>> /\ is_dash(line[1])
             THEN general_loop_with_footer(Tail(ls),
                                           Append(items, demark(strip(Tail(line)))))
             ELSE general_loop_with_footer(Tail(ls), items)

\* lines 147-156, from the state items over the remaining lines ls
RECURSIVE general_loop(_, _)
general_loop(ls, items) ==
    IF ls = <<>> \/ startswith(Head(ls), HH) THEN items
    ELSE LET line == Head(ls)
         IN  IF is_separator(line) \/ endswith(line, TheManagement)
             THEN general_loop(Tail(ls), items)
             ELSE IF line # <<>> /\ is_dash(line[1])
             THEN general_loop(Tail(ls), Append(items, demark(strip(Tail(line)))))
             ELSE general_loop(Tail(ls), items)

get_general_wisdom(ls, name) == [k |-> name, v |-> general_loop(ls, <<>>)]

extract_wisdom(ls, sec) ==
    LET name == strip(SubSeq(sec, 3, Len(sec)))
    IN  IF name = Epigraphs
        THEN get_epigraphs(ls, name)
        ELSE get_general_wisdom(ls, name)

\* lines 159-176; ok = FALSE is parse_failed()
get_wisdom_lines(md) ==
    LET ls == readlines_stripped(md)
        sh == subheads(ls)
        n == Len(sh)
    IN  IF n < 3 THEN [ok |-> FALSE, lines |-> <<>>]
        ELSE IF ~(startswith(ls[sh[n]], LicensingHead)
                  /\ startswith(ls[sh[n - 1]], AboutHead))
        THEN [ok |-> FALSE, lines |-> <<>>]
        ELSE [ok |-> TRUE,
              lines |-> SelectSeq(SubSeq(ls, sh[1], sh[n - 1] - 1),
                                  LAMBDA L : ~startswith(L, <<"<">>)
                                             /\ ~startswith(L, <<"!">>))]

\* wisdom_loop that overwrites the items of a name met before
RECURSIVE wisdom_loop_overwrite(_, _, _)
wisdom_loop_overwrite(ls, sh, w) ==
    IF sh = <<>> THEN w
    ELSE LET r == extract_wisdom(SubSeq(ls, Head(sh) + 1, Len(ls)), ls[Head(sh)])
         IN  wisdom_loop_overwrite(ls, Tail(sh), dict_set(w, r.k, r.v))

\* lines 103-111, from the dict w over the remaining subheads sh of ls
RECURSIVE wisdom_loop(_, _, _)
wisdom_loop(ls, sh, w) ==
    IF sh = <<>> THEN w
    ELSE LET r == extract_wisdom(SubSeq(ls, Head(sh) + 1, Len(ls)), ls[Head(sh)])
         IN  IF r.k \in dict_keys(w)
             THEN wisdom_loop(ls, Tail(sh), dict_extend(w, r.k, r.v))
             ELSE wisdom_loop(ls, Tail(sh), dict_set(w, r.k, r.v))

get_wisdom(ls) == wisdom_loop(ls, subheads(ls), <<>>)

----------------------------------------------------------------------------
(* The selector *)

URL == "https://github.com/merlinmann/wisdom"

WISDOM_PATH == "wisdom.md"

USAGE == "USAGE"

\* textwrap.wrap(L) of a line without tabs that fits the default width of 70:
\* the line without its trailing blanks, or nothing for a line of blanks
wrap(L) == IF strip(L) = <<>> THEN <<>> ELSE <<rstrip(L)>>

\* sum(len(v) for k, v in wisdom.items())
RECURSIVE total(_)
total(d) == IF d = <<>> THEN 0 ELSE Len(Head(d).v) + total(Tail(d))

\* select_loop that does not consume a category's count from the index
RECURSIVE select_loop_no_subtract(_, _)
select_loop_no_subtract(d, idx) ==
    IF d = <<>> THEN [found |-> FALSE, k |-> <<>>, item |-> <<>>, i |-> idx]
    ELSE LET N == Len(Head(d).v)
         IN  IF idx < N
             THEN [found |-> TRUE, k |-> Head(d).k, item |-> Head(d).v[idx + 1],
                   i |-> idx]
             ELSE select_loop_no_subtract(Tail(d), idx)

\* lines 212-221: the walk over the remaining categories d with index idx
RECURSIVE select_loop(_, _)
select_loop(d, idx) ==
    IF d = <<>> THEN [found |-> FALSE, k |-> <<>>, item |-> <<>>, i |-> idx]
    ELSE LET N == Len(Head(d).v)
         IN  IF idx < N
             THEN [found |-> TRUE, k |-> Head(d).k, item |-> Head(d).v[idx + 1],
                   i |-> idx]
             ELSE select_loop(Tail(d), idx - N)

\* lines 215-218: the two print calls
presented(k, item) ==
    LET ls == splitlines(item)
        cont == [n \in 1..Len(ls) |-> join(wrap(ls[n]), <<"\n">>)]
    IN  <<[fmt |-> "%s", args |-> <<join(cont, <<"\n">>)>>],
          [fmt |-> "\nFrom %s, %s\n", args |-> <<k, URL>>]>>

----------------------------------------------------------------------------
(* The steps of the process *)

quotesKey == <<"q", "u", "o", "t", "e", "s">>

\* lines 225-230
Main ==
    /\ pc = "main"
    /\ IF Len(argv) > 0
       THEN IF Len(argv) = 1 /\ argv[1] \in {"-u", "--update"}
            THEN /\ pc' = "get_quotes"
                 /\ ret' = "exists"
                 /\ UNCHANGED <<stderr, exitcode>>
            ELSE /\ stderr' = Append(stderr, [fmt |-> USAGE, args |-> <<>>])
                 /\ exitcode' = 1
                 /\ pc' = "exit"
                 /\ UNCHANGED ret
       ELSE /\ pc' = "exists"
            /\ UNCHANGED <<ret, stderr, exitcode>>
    /\ UNCHANGED <<argv, quotes_md, wisdom_md, json, json0, quotes, lines,
                   section, content, wisdom, i, stdout>>

\* lines 232-233
Exists ==
    /\ pc = "exists"
    /\ IF ~json.exists
       THEN pc' = "get_quotes" /\ ret' = "merlin"
       ELSE pc' = "merlin" /\ UNCHANGED ret
    /\ UNCHANGED <<argv, quotes_md, wisdom_md, json, json0, quotes, lines,
                   section, content, wisdom, i, stdout, stderr, exitcode>>

\* line 60
GetQuotes ==
    /\ pc = "get_quotes"
    /\ LET r == get_quotes(quotes_md)
       IN  /\ quotes' = r.quotes
           /\ stderr' = stderr \o r.err
    /\ pc' = "get_wisdom_lines"
    /\ UNCHANGED <<argv, quotes_md, wisdom_md, json, json0, ret, lines,
                   section, content, wisdom, i, stdout, exitcode>>

\* line 102, with parse_failed (lines 181-184)
GetWisdomLines ==
    /\ pc = "get_wisdom_lines"
    /\ LET r == get_wisdom_lines(wisdom_md)
       IN  IF r.ok
           THEN /\ lines' = r.lines
                /\ pc' = "get_wisdom"
                /\ UNCHANGED <<stderr, exitcode>>
           ELSE /\ stderr' = Append(stderr, [fmt |-> "ERROR: Failed to parse %s",
                                             args |-> <<WISDOM_PATH>>])
                /\ exitcode' = 1
                /\ pc' = "exit"
                /\ UNCHANGED lines
    /\ UNCHANGED <<argv, quotes_md, wisdom_md, json, json0, ret, quotes,
                   section, content, wisdom, i, stdout>>

\* lines 103-111
GetWisdom ==
    /\ pc = "get_wisdom"
    /\ wisdom' = get_wisdom(lines)
    /\ pc' = "dump"
    /\ UNCHANGED <<argv, quotes_md, wisdom_md, json, json0, ret, quotes, lines,
                   section, content, i, stdout, stderr, exitcode>>

\* Dump that opens the cache for writing and stores the wisdom without the quotes
Dump_without_quotes ==
    /\ pc = "dump"
    /\ json' = [exists |-> TRUE, data |-> wisdom]
    /\ pc' = ret
    /\ UNCHANGED <<argv, quotes_md, wisdom_md, json0, ret, quotes, lines,
                   section, content, wisdom, i, stdout, stderr, exitcode>>

\* lines 62-64
Dump ==
    /\ pc = "dump"
    /\ wisdom' = dict_set(wisdom, quotesKey, quotes)
    /\ json' = [exists |-> TRUE, data |-> wisdom']
    /\ pc' = ret
    /\ UNCHANGED <<argv, quotes_md, wisdom_md, json0, ret, quotes, lines,
                   section, content, i, stdout, stderr, exitcode>>

\* lines 207-211; random.randint(0, -1) raises ValueError
Merlin ==
    /\ pc = "merlin"
    /\ json.exists
    /\ wisdom' = json.data
    /\ LET n == total(json.data)
       IN  IF n = 0
           THEN /\ stderr' = Append(stderr, [fmt |-> "ValueError", args |-> <<>>])
                /\ exitcode' = 1
                /\ pc' = "exit"
                /\ UNCHANGED i
           ELSE /\ \E r \in 0..(n - 1) : i' = r
                /\ pc' = "select"
                /\ UNCHANGED <<stderr, exitcode>>
    /\ UNCHANGED <<argv, quotes_md, wisdom_md, json, json0, ret, quotes, lines,
                   section, content, stdout>>

\* lines 212-221
Select ==
    /\ pc = "select"
    /\ LET r == select_loop(wisdom, i)
       IN  /\ i' = r.i
           /\ IF r.found
              THEN /\ stdout' = stdout \o presented(r.k, r.item)
                   /\ exitcode' = 1
              ELSE /\ exitcode' = 0
                   /\ UNCHANGED stdout
    /\ pc' = "exit"
    /\ UNCHANGED <<argv, quotes_md, wisdom_md, json, json0, ret, quotes, lines,
                   section, content, wisdom, stderr>>

\* lines 114-119, called on its own
ExtractWisdom ==
    /\ pc = "extract_wisdom"
    /\ content' = <<extract_wisdom(lines, section)>>
    /\ pc' = "extracted"
    /\ UNCHANGED <<argv, quotes_md, wisdom_md, json, json0, ret, quotes, lines,
                   section, wisdom, i, stdout, stderr, exitcode>>

----------------------------------------------------------------------------
(* The inputs *)

SeqsUpTo(S, n) == UNION {[1..m -> S] : m \in 0..n}

NoCache == [exists |-> FALSE, data |-> <<>>]

Cache(d) == [exists |-> TRUE, data |-> d]

\* lines of a quotations document: heading, rule, content, content with
\* markup, attribution, blank, indented attribution with an em dash, markup only
QuoteVocab ==
    { <<"#", " ", "h">>, <<"-", "-", "-">>, <<"a">>, <<"*", "b", "*">>,
      <<"-", " ", "c">>, <<>>, <<" ", "EM_DASH", "d", " ">>, <<"*", "*">> }

\* (trimmed) lines of a section: content, content with markup, rule,
\* attribution, en-dash bullet, blank, the footer, the next heading
SectionVocab ==
    { <<"a">>, <<">", " ", "_", "b", "_">>, <<"-", "-", "EM_DASH">>,
      <<"-", " ", "c">>, <<"EN_DASH", "d", "*">>, <<>>,
      <<"-", " ">> \o TheManagement, <<"#", "#", " ", "M">> }

SectionHeads ==
    { <<"#", "#", " ">> \o Epigraphs, <<"#", "#", "M", "i", "s", "c">> }

MiscHead == <<"#", "#", " ", "M", "i", "s", "c">>

OtherHead == <<"#", "#", " ", "O", "t", "h">>

ItemP == <<"-", " ", "p">>

ItemQ == <<"-", " ", "q">>

\* lines of the body of a wisdom document
BodyVocab ==
    { MiscHead, OtherHead, <<"#", "#">> \o Epigraphs, ItemP, ItemQ, <<"<", "r">> }

\* lines of a wisdom document, for the structural gate
GateVocab ==
    { MiscHead, ItemP, AboutHead, LicensingHead, AboutHead \o <<" ", "m", "e">>,
      <<"#", "#", "A", "b", "o", "u", "t">>, LicensingHead \o <<"s">> }

CatNames == { <<"A">>, <<"B">>, quotesKey }

ItemTexts == { <<"x">>, <<"z", "\n", "w">> }

\* the dicts with at most n categories of at most m items each
Dicts(n, m) ==
    { d \in SeqsUpTo([k : CatNames, v : SeqsUpTo(ItemTexts, m)], n) :
        \A a, b \in 1..Len(d) : a # b => d[a].k # d[b].k }

ProgArgvs == { <<>>, <<"-u">>, <<"--update">>, <<"-x">>, <<"-u", "-u">> }

ProgTails ==
    { <<AboutHead, LicensingHead>>, <<AboutHead \o <<" ", "m", "e">>, LicensingHead>>,
      <<LicensingHead>> }

ProgCaches ==
    { NoCache, Cache(<<>>),
      Cache(<<[k |-> <<"A">>, v |-> << <<"x">> >>],
              [k |-> <<"B">>, v |-> << <<"y">>, <<"z">> >>]>>),
      Cache(<<[k |-> quotesKey, v |-> <<>>]>>) }

Idle ==
    /\ ret = "none"
    /\ quotes = <<>>
    /\ lines = <<>>
    /\ section = <<>>
    /\ content = <<>>
    /\ wisdom = <<>>
    /\ i = 0
    /\ stdout = <<>>
    /\ stderr = <<>>
    /\ exitcode = -1

----------------------------------------------------------------------------
(* The process: one invocation of merlin.py *)

Init ==
    /\ argv \in ProgArgvs
    /\ quotes_md \in SeqsUpTo({<<"a">>, <<"-", " ", "b">>}, MaxProgLines)
    /\ \E body \in SeqsUpTo({MiscHead, ItemP}, MaxProgLines), tail \in ProgTails :
          wisdom_md = body \o tail
    /\ json \in ProgCaches
    /\ json0 = json
    /\ pc = "main"
    /\ Idle

Next ==
    \/ Main
    \/ Exists
    \/ GetQuotes
    \/ GetWisdomLines
    \/ GetWisdom
    \/ Dump
    \/ Merlin
    \/ Select

Spec == Init /\ [][Next]_vars

(* get_quotes applied to the quotations documents *)

InitQuotes ==
    /\ argv = <<"-u">>
    /\ quotes_md \in SeqsUpTo(QuoteVocab, MaxQuoteLines)
    /\ wisdom_md = <<>>
    /\ json = NoCache
    /\ json0 = json
    /\ pc = "get_quotes"
    /\ Idle

NextQuotes == GetQuotes

SpecQuotes == InitQuotes /\ [][NextQuotes]_vars

(* extract_wisdom applied to the sections *)

InitExtract ==
    /\ argv = <<"-u">>
    /\ quotes_md = <<>>
    /\ wisdom_md = <<>>
    /\ json = NoCache
    /\ json0 = json
    /\ pc = "extract_wisdom"
    /\ ret = "none"
    /\ quotes = <<>>
    /\ lines \in SeqsUpTo(SectionVocab, MaxSectionLines)
    /\ section \in SectionHeads
    /\ content = <<>>
    /\ wisdom = <<>>
    /\ i = 0
    /\ stdout = <<>>
    /\ stderr = <<>>
    /\ exitcode = -1

NextExtract == ExtractWisdom

SpecExtract == InitExtract /\ [][NextExtract]_vars

(* get_wisdom_lines applied to the wisdom documents *)

InitGate ==
    /\ argv = <<"-u">>
    /\ quotes_md = <<>>
    /\ wisdom_md \in SeqsUpTo(GateVocab, MaxGateLines)
    /\ json = NoCache
    /\ json0 = json
    /\ pc = "get_wisdom_lines"
    /\ Idle

NextGate == GetWisdomLines

SpecGate == InitGate /\ [][NextGate]_vars

(* get_wisdom applied to the wisdom documents that end as required *)

InitWisdom ==
    /\ argv = <<"-u">>
    /\ quotes_md = <<>>
    /\ \E body \in SeqsUpTo(BodyVocab, MaxBodyLines) :
          wisdom_md = body \o <<AboutHead, LicensingHead>>
    /\ json = NoCache
    /\ json0 = json
    /\ pc = "get_wisdom_lines"
    /\ Idle

NextWisdom ==
    \/ GetWisdomLines
    \/ GetWisdom

SpecWisdom == InitWisdom /\ [][NextWisdom]_vars

(* merlin applied to the caches *)

InitMerlin ==
    /\ argv = <<>>
    /\ quotes_md = <<>>
    /\ wisdom_md = <<>>
    /\ json \in {Cache(d) : d \in Dicts(MaxCats, MaxItems)}
    /\ json0 = json
    /\ pc = "merlin"
    /\ Idle

NextMerlin ==
    \/ Merlin
    \/ Select

SpecMerlin == InitMerlin /\ [][NextMerlin]_vars

----------------------------------------------------------------------------
(* Vocabulary of the properties *)

UpdateArg == Len(argv) = 1 /\ argv[1] \in {"-u", "--update"}

FatalError == \E n \in 1..Len(stderr) : stderr[n].fmt = "ERROR: Failed to parse %s"

UsageError == \E n \in 1..Len(stderr) : stderr[n].fmt = USAGE

\* the name of the section a heading line opens
SectionName(h) == strip(SubSeq(h, 3, Len(h)))

IsDashLine(L) == L # <<>> /\ is_dash(L[1])

Indices(ls) == [n \in 1..Len(ls) |-> n]

\* the markup-stripped lines of ls
Demarked(ls) == [n \in 1..Len(ls) |-> demark(ls[n])]

----------------------------------------------------------------------------
(* C1 *)

\* C1: an invocation with the single argument -u or --update only refreshes:
\* it prints no item, and once the cache is rewritten it ends with exit code 0.
C1_UpdateOnlyRefreshes ==
    UpdateArg =>
        /\ stdout = <<>>
        /\ (pc = "exit" /\ ~FatalError) => exitcode = 0

----------------------------------------------------------------------------
(* C2 *)

GateHeads == LET ls == readlines_stripped(wisdom_md)
             IN  [n \in 1..Len(subheads(ls)) |-> ls[subheads(ls)[n]]]

\* C2: get_wisdom_lines lets parsing proceed iff the document has at least
\* three ## headings, the last one named exactly "Licensing" and the one
\* before it named exactly "About"; otherwise it fails fatally (diagnostic on
\* the error stream, non-zero exit code).
C2_GateExactNames ==
    pc # "get_wisdom_lines" =>
        LET h == GateHeads
            wellFormed ==
                /\ Len(h) >= 3
                /\ SectionName(h[Len(h)]) = <<"L", "i", "c", "e", "n", "s", "i", "n", "g">>
                /\ SectionName(h[Len(h) - 1]) = <<"A", "b", "o", "u", "t">>
        IN  /\ wellFormed <=> pc = "get_wisdom"
            /\ ~wellFormed <=> (pc = "exit" /\ FatalError /\ exitcode > 0)

----------------------------------------------------------------------------
(* C3, C8, C9: the sections *)

IsEpigraphs == SectionName(section) = Epigraphs

\* the lines of the section: those before the next heading
SectionBody ==
    LET hs == subheads(lines)
    IN  IF hs = <<>> THEN lines ELSE SubSeq(lines, 1, hs[1] - 1)

\* a line of a block that does not close it
IsProse(L) == L # <<>> /\ ~is_dash(L[1]) /\ ~startswith(L, HH)

\* C3: in the Epigraphs section a pure-separator line delimits blocks: two
\* groups of non-blank, non-dash-prefixed lines with a separator line between
\* them are emitted as two epigraphs, in document order.
C3_SeparatorDelimits ==
    (pc = "extracted" /\ IsEpigraphs) =>
        \A m \in 2..(Len(lines) - 1) :
            (/\ is_separator(lines[m])
             /\ \A n \in 1..Len(lines) : n # m => IsProse(lines[n]))
            => content[1].v =
                   << form_epigraph(Demarked(SubSeq(lines, 1, m - 1))),
                      form_epigraph(Demarked(SubSeq(lines, m + 1, Len(lines)))) >>

\* the index before the trailing block: the last separator or dash-prefixed
\* line of the section, or 0
LastDelimiter ==
    LET B == SectionBody
        D == {n \in 1..Len(B) : is_separator(B[n]) \/ IsDashLine(B[n])}
    IN  IF D = {} THEN 0 ELSE CHOOSE n \in D : \A m \in D : m <= n

\* the non-blank lines after the last separator or dash-prefixed line
TrailingBlock ==
    SelectSeq(SubSeq(SectionBody, LastDelimiter + 1, Len(SectionBody)),
              LAMBDA L : L # <<>>)

\* C8: in the Epigraphs section a trailing block that no separator line and
\* no dash-prefixed line follows is emitted as the final epigraph.
C8_TrailingBlockKept ==
    (pc = "extracted" /\ IsEpigraphs /\ TrailingBlock # <<>>) =>
        /\ content[1].v # <<>>
        /\ content[1].v[Len(content[1].v)] = form_epigraph(Demarked(TrailingBlock))

\* the lines of the section that are items
ItemLines ==
    SelectSeq(SectionBody,
              LAMBDA L : IsDashLine(L) /\ ~is_separator(L)
                         /\ ~endswith(L, TheManagement))

\* C9: a section other than Epigraphs yields, in document order, one item per
\* line that starts with a dash-like character and is neither a pure separator
\* nor ends with the footer marker: the line without its leading dash and
\* surrounding whitespace, markup-stripped.  No other line contributes.
C9_GeneralItems ==
    (pc = "extracted" /\ ~IsEpigraphs) =>
        /\ content[1].k = SectionName(section)
        /\ content[1].v =
               [n \in 1..Len(ItemLines) |-> demark(strip(Tail(ItemLines[n])))]

C9_Witness ==
    /\ pc = "extracted"
    /\ ~IsEpigraphs
    /\ lines = << <<"-", " ", "c">>, <<"a">>, <<"EN_DASH", "d", "*">> >>
    /\ content[1].v = << <<"c">>, <<"d">> >>

----------------------------------------------------------------------------
(* C4, C5: the quotations *)

QuoteDoc == readlines_stripped(quotes_md)

IsHeading(L) == startswith(L, <<"#">>)

\* a dash-prefixed line that is not a rule
IsAttribution(L) == IsDashLine(L) /\ ~is_separator(L)

\* a line that is kept and does not close a quote
IsContent(L) == ~IsHeading(L) /\ ~is_separator(L) /\ ~IsDashLine(L)

\* a heading line, a separator line, one or more non-blank content lines and
\* one attribution line
OneQuoteDoc ==
    LET d == QuoteDoc
    IN  /\ Len(d) >= 4
        /\ IsHeading(d[1])
        /\ is_separator(d[2])
        /\ \A n \in 3..(Len(d) - 1) : d[n] # <<>> /\ IsContent(d[n])
        /\ IsAttribution(d[Len(d)])

OneQuoteContent == Demarked(SubSeq(QuoteDoc, 3, Len(QuoteDoc) - 1))

\* C4 as stated: the single quote is the content lines followed by the
\* attribution text, the attribution line's leading dash and surrounding
\* whitespace stripped.
C4_AttributionDashStripped ==
    (pc # "get_quotes" /\ OneQuoteDoc) =>
        quotes = << form_quote(Append(OneQuoteContent,
                        demark(strip(Tail(QuoteDoc[Len(QuoteDoc)]))))) >>

\* C4, amended: for a document made of a heading line, a separator line, one
\* or more content lines and one dash-prefixed attribution line, the result is
\* exactly one quote: the markup-stripped content lines followed by the
\* markup-stripped attribution line, which keeps its leading dash, joined by
\* line breaks and trimmed; the heading and the separator are dropped.
C4_AttributionDashKept ==
    (pc # "get_quotes" /\ OneQuoteDoc) =>
        quotes = << form_quote(Append(OneQuoteContent,
                        demark(QuoteDoc[Len(QuoteDoc)]))) >>

C4_Witness ==
    /\ pc = "get_wisdom_lines"
    /\ OneQuoteDoc
    /\ quotes_md = << <<"#", " ", "h">>, <<"-", "-", "-">>, <<"a">>, <<"-", " ", "c">> >>
    /\ quotes = << <<"a", "\n", "-", " ", "c">> >>

\* the positions of the attribution lines
AttributionIdx == SelectSeq(Indices(QuoteDoc), LAMBDA n : IsAttribution(QuoteDoc[n]))

\* the kept lines from position lo to position hi
KeptLines(lo, hi) ==
    SelectSeq(SubSeq(QuoteDoc, lo, hi), LAMBDA L : ~IsHeading(L) /\ ~is_separator(L))

\* one quote per attribution line: the kept lines since the previous one
CompleteQuotes ==
    LET a == AttributionIdx
    IN  [n \in 1..Len(a) |->
            form_quote(Demarked(KeptLines(IF n = 1 THEN 1 ELSE a[n - 1] + 1, a[n])))]

\* the kept lines after the last attribution line, markup-stripped
DanglingTail ==
    LET a == AttributionIdx
    IN  Demarked(KeptLines(IF a = <<>> THEN 1 ELSE a[Len(a)] + 1, Len(QuoteDoc)))

HasDanglingContent == \E n \in 1..Len(DanglingTail) : DanglingTail[n] # <<>>

\* C5: when non-empty content follows the last attribution line, it yields no
\* quote, a diagnostic showing it is written to the error stream, get_quotes
\* does not fail, and the quotes completed before it are all returned in
\* document order.
C5_DanglingTailDiscarded ==
    (pc # "get_quotes" /\ HasDanglingContent) =>
        /\ quotes = CompleteQuotes
        /\ stderr = << [fmt |-> WARNING, args |-> <<>>],
                       [fmt |-> "%r", args |-> <<DanglingTail>>] >>
        /\ pc = "get_wisdom_lines"
        /\ exitcode = -1

C5_Witness ==
    /\ pc = "get_wisdom_lines"
    /\ HasDanglingContent
    /\ Len(quotes) = 2
    /\ quotes[1] # quotes[2]
    /\ stderr # <<>>

----------------------------------------------------------------------------
(* C6: the categories *)

\* the lines of the section opened at position h of the body
SectionLinesAt(h) ==
    LET later == SelectSeq(subheads(lines), LAMBDA n : n > h)
    IN  SubSeq(lines, h + 1, IF later = <<>> THEN Len(lines) ELSE later[1] - 1)

\* the items of the sections at the positions hs that are named name, in order
RECURSIVE ItemsNamed(_, _)
ItemsNamed(hs, name) ==
    IF hs = <<>> THEN <<>>
    ELSE (IF SectionName(lines[Head(hs)]) = name
          THEN extract_wisdom(SectionLinesAt(Head(hs)), lines[Head(hs)]).v
          ELSE <<>>)
         \o ItemsNamed(Tail(hs), name)

\* C6: after get_wisdom every category name is exactly one key, the keys are
\* the names of the body's sections, and a key's items are the concatenation,
\* in encounter order, of the items of every section of that name.
C6_Concatenation ==
    pc = "dump" =>
        /\ \A a, b \in 1..Len(wisdom) : a # b => wisdom[a].k # wisdom[b].k
        /\ dict_keys(wisdom) = {SectionName(lines[h]) : h \in
                                   {subheads(lines)[n] : n \in 1..Len(subheads(lines))}}
        /\ \A a \in 1..Len(wisdom) :
              wisdom[a].v = ItemsNamed(subheads(lines), wisdom[a].k)

C6_Witness ==
    /\ pc = "dump"
    /\ lines = <<MiscHead, ItemP, OtherHead, MiscHead, ItemQ>>
    /\ wisdom = << [k |-> <<"M", "i", "s", "c">>, v |-> << <<"p">>, <<"q">> >>],
                   [k |-> <<"O", "t", "h">>, v |-> <<>>] >>

----------------------------------------------------------------------------
(* C7: the selection *)

\* the item positions of the dict d in insertion order: category, item, offset
RECURSIVE Flatten(_)
Flatten(d) ==
    IF d = <<>> THEN <<>>
    ELSE [n \in 1..Len(Head(d).v) |->
              [k |-> Head(d).k, item |-> Head(d).v[n], off |-> n - 1]]
         \o Flatten(Tail(d))

\* C7: for a cache of N >= 1 items and a drawn index i in [0, N), the walk
\* selects exactly the i-th item of the concatenation of the categories' lists
\* in insertion order, prints it attributed to the category that holds it, and
\* ends at that item's offset in its category; so distinct indices select
\* distinct item positions.
C7_SelectsIth ==
    [][pc = "select" =>
          LET f == Flatten(wisdom)
          IN  /\ Len(f) = total(wisdom)
              /\ i \in 0..(Len(f) - 1)
              /\ stdout' = presented(f[i + 1].k, f[i + 1].item)
              /\ i' = f[i + 1].off
              /\ \A a, b \in 1..Len(f) :
                    a # b => <<f[a].k, f[a].off>> # <<f[b].k, f[b].off>>]_vars

C7_Witness ==
    /\ pc = "exit"
    /\ wisdom = << [k |-> <<"A">>, v |-> << <<"x">> >>],
                   [k |-> <<"B">>, v |-> << <<"x">>, <<"z", "\n", "w">> >>] >>
    /\ i = 1
    /\ stdout = << [fmt |-> "%s", args |-> << <<"z", "\n", "w">> >>],
                   [fmt |-> "\nFrom %s, %s\n", args |-> << <<"B">>, URL >>] >>

----------------------------------------------------------------------------
(* C10: the cache *)

\* the mapping a refresh builds from the two documents
FreshMapping ==
    dict_set(get_wisdom(get_wisdom_lines(wisdom_md).lines), quotesKey,
             get_quotes(quotes_md).quotes)

\* C10: the cache changes only in the last step of a refresh whose two
\* documents were parsed without a fatal error, and then becomes the freshly
\* built mapping, whatever it was before, with the quotations under the key
\* quotes; the fatal structural error, the usage error and the
\* select-and-print step leave it as it was when the invocation started.
C10_CacheFrame ==
    [][/\ json' # json =>
              /\ pc = "dump"
              /\ get_wisdom_lines(wisdom_md).ok
              /\ json' = Cache(FreshMapping)
              /\ quotesKey \in dict_keys(json'.data)
              /\ dict_get(json'.data, quotesKey) = get_quotes(quotes_md).quotes
       /\ (pc' = "exit" /\ (FatalError' \/ UsageError')) => json' = json0
       /\ (pc' = "exit" /\ argv = <<>> /\ json0.exists) => json' = json0
       /\ pc \in {"merlin", "select"} => json' = json]_vars

C10_Witness ==
    /\ pc = "exit"
    /\ json0.exists
    /\ json0.data # <<>>
    /\ json # json0
    /\ Len(json.data) = 2
    /\ dict_get(json.data, quotesKey) # <<>>

====
